---------------------------- MODULE Spec2Model ----------------------------
(***************************************************************************)
(* A model of simple-jsx-ssg (src/index.tsx): the SiteGenerator's route    *)
(* table, its serve-mode request handler, its build and its CLI.           *)
(*                                                                         *)
(* A JavaScript string is a sequence of one-character strings, so that     *)
(* startsWith, endsWith, substring, the sanitising regular expression and  *)
(* path.join are computed character by character, as the code computes     *)
(* them.  A byte buffer is a sequence of byte tokens: an ASCII byte is the *)
(* character itself, "xC3" "xA9" are the two bytes of U+00E9.              *)
(***************************************************************************)
EXTENDS Integers, Sequences, FiniteSets, TLC

(***************************************************************************)
(* Bounds of the model.                                                    *)
(***************************************************************************)
\* the largest number of entries of the routes Map
MaxRoutes == 2
\* the longest request path of the static application, in characters
MaxPathLen == 6

(***************************************************************************)
(* JavaScript strings.                                                     *)
(***************************************************************************)
startsWith(s, p) ==
    /\ Len(p) <= Len(s)
    /\ SubSeq(s, 1, Len(p)) = p

endsWith(s, p) ==
    /\ Len(p) <= Len(s)
    /\ SubSeq(s, Len(s) - Len(p) + 1, Len(s)) = p

\* s.substring(from): the characters from index from (0-based) on
substringFrom(s, from) == SubSeq(s, from + 1, Len(s))

\* s.substring(from, to): the characters of [from, to) (0-based)
substring(s, from, to) == SubSeq(s, from + 1, to)

\* s.indexOf(c): the 0-based index of the first c, or -1
indexOf(s, c) ==
    IF \E i \in 1..Len(s) : s[i] = c
    THEN (CHOOSE i \in 1..Len(s) : s[i] = c /\ \A j \in 1..(i - 1) : s[j] # c) - 1
    ELSE -1

RECURSIVE Concat(_)
\* the concatenation of a sequence of sequences
Concat(ss) == IF ss = <<>> THEN <<>> ELSE Head(ss) \o Concat(Tail(ss))

Last(s) == s[Len(s)]
Front(s) == SubSeq(s, 1, Len(s) - 1)

(***************************************************************************)
(* path (POSIX): split, normalize, join, dirname.                          *)
(***************************************************************************)
RECURSIVE SplitAt(_, _, _)
\* s.split('/'): cur is the segment being read, s what is left to read
SplitAt(s, cur, acc) ==
    IF s = <<>> THEN Append(acc, cur)
    ELSE IF Head(s) = "/" THEN SplitAt(Tail(s), <<>>, Append(acc, cur))
    ELSE SplitAt(Tail(s), Append(cur, Head(s)), acc)

Split(s) == SplitAt(s, <<>>, <<>>)

RECURSIVE JoinSegs(_)
\* the segments with a '/' between each two
JoinSegs(segs) ==
    IF segs = <<>> THEN <<>>
    ELSE IF Len(segs) = 1 THEN segs[1]
    ELSE segs[1] \o <<"/">> \o JoinSegs(Tail(segs))

DotDot == <<".", ".">>

RECURSIVE normalizeString(_, _, _)
\* path's normalizeString: '' and '.' segments are dropped, '..' pops the
\* segment before it; above the root of a relative path '..' is kept, above
\* the root of an absolute path it is dropped
normalizeString(segs, allowAboveRoot, res) ==
    IF segs = <<>> THEN res
    ELSE LET seg == Head(segs) rest == Tail(segs) IN
         IF seg = <<>> \/ seg = <<".">> THEN normalizeString(rest, allowAboveRoot, res)
         ELSE IF seg = DotDot
              THEN IF res # <<>> /\ Last(res) # DotDot
                   THEN normalizeString(rest, allowAboveRoot, Front(res))
                   ELSE IF allowAboveRoot
                        THEN normalizeString(rest, allowAboveRoot, Append(res, DotDot))
                        ELSE normalizeString(rest, allowAboveRoot, res)
              ELSE normalizeString(rest, allowAboveRoot, Append(res, seg))

\* the segments of normalize(p)
NormSegs(p) == normalizeString(Split(p), ~ startsWith(p, <<"/">>), <<>>)

normalize(p) ==
    IF p = <<>> THEN <<".">>
    ELSE LET isAbsolute == Head(p) = "/"
             trailingSeparator == Last(p) = "/"
             path == JoinSegs(NormSegs(p))
         IN  IF path = <<>>
             THEN IF isAbsolute THEN <<"/">>
                  ELSE IF trailingSeparator THEN <<".", "/">> ELSE <<".">>
             ELSE (IF isAbsolute THEN <<"/">> ELSE <<>>)
                  \o path
                  \o (IF trailingSeparator THEN <<"/">> ELSE <<>>)

\* path.join(a, b): the non-empty arguments joined by '/', normalized
joinPaths(a, b) ==
    IF a = <<>> /\ b = <<>> THEN <<".">>
    ELSE IF a = <<>> THEN normalize(b)
    ELSE IF b = <<>> THEN normalize(a)
    ELSE normalize(a \o <<"/">> \o b)

\* path/posix dirname of a path that was normalized
dirname(p) ==
    LET q == IF Len(p) > 1 /\ Last(p) = "/" THEN Front(p) ELSE p
        slashes == {i \in 1..Len(q) : q[i] = "/"}
    IN  IF q = <<>> THEN <<".">>
        ELSE IF slashes = {} THEN <<".">>
        ELSE LET i == CHOOSE k \in slashes : \A j \in slashes : j <= k
             IN  IF i = 1 THEN <<"/">> ELSE SubSeq(q, 1, i - 1)

(***************************************************************************)
(* UTF-8, over the code points and bytes the model uses: an ASCII          *)
(* character is one byte, U+00E9 is the bytes xC3 xA9, and U+FFFD (the     *)
(* replacement character) is xEF xBF xBD.                                  *)
(***************************************************************************)
\* TextEncoder: the bytes of one code point
EncodeChar(c) ==
    IF c = "U+E9" THEN <<"xC3", "xA9">>
    ELSE IF c = "U+FFFD" THEN <<"xEF", "xBF", "xBD">>
    ELSE <<c>>

RECURSIVE utf8Encode(_)
utf8Encode(text) ==
    IF text = <<>> THEN <<>> ELSE EncodeChar(Head(text)) \o utf8Encode(Tail(text))

RECURSIVE utf8Decode(_)
\* TextDecoder('utf-8').decode(bytes), without {stream: true}: the decoder
\* is flushed at the end of every call, so a sequence the buffer cuts short
\* decodes to U+FFFD, as does a continuation byte with no lead byte
utf8Decode(bytes) ==
    IF bytes = <<>> THEN <<>>
    ELSE IF Head(bytes) = "xC3"
         THEN IF Len(bytes) >= 2 /\ bytes[2] = "xA9"
              THEN <<"U+E9">> \o utf8Decode(SubSeq(bytes, 3, Len(bytes)))
              ELSE <<"U+FFFD">> \o utf8Decode(Tail(bytes))
    ELSE IF Head(bytes) = "xEF"
         THEN IF Len(bytes) >= 3 /\ bytes[2] = "xBF" /\ bytes[3] = "xBD"
              THEN <<"U+FFFD">> \o utf8Decode(SubSeq(bytes, 4, Len(bytes)))
              ELSE <<"U+FFFD">> \o utf8Decode(Tail(bytes))
    ELSE IF Head(bytes) \in {"xA9", "xBF", "xBD"}
         THEN <<"U+FFFD">> \o utf8Decode(Tail(bytes))
    ELSE <<Head(bytes)>> \o utf8Decode(Tail(bytes))

(***************************************************************************)
(* Render results and renderers.  A RenderResult is [type, data]: data is  *)
(* a sequence of chunks; a string, a Uint8Array, a JSX element and a       *)
(* number have one chunk (the code points, the bytes, the tag, the         *)
(* digits), a ReadableStream has the chunks it will yield.                 *)
(***************************************************************************)
TextPage == [type |-> "string", data |-> << <<"P", "A", "G", "E">> >>]
\* a stream of "a", U+00E9 whose second chunk starts inside U+00E9
StreamPage == [type |-> "stream", data |-> << <<"a", "xC3">>, <<"xA9">> >>]
JsxPage == [type |-> "jsx", data |-> << <<"h", "1">> >>]
\* a value that is no RenderResult: the number 42
NumberPage == [type |-> "number", data |-> << <<"4", "2">> >>]
\* no value: the renderer threw
Thrown == [type |-> "throws", data |-> << <<>> >>]

FnText == [kind |-> "fn", name |-> "text"]
FnStream == [kind |-> "fn", name |-> "stream"]
FnBad == [kind |-> "fn", name |-> "bad"]
\* a renderer that throws
FnThrow == [kind |-> "fn", name |-> "throw"]
Undefined == [kind |-> "undefined", name |-> ""]
\* the module path an application hands to setRoute and setNotFound
ModulePage == [kind |-> "string", name |-> "./page"]

\* moduleRenderer(modulePath): a Renderer that imports the module anew at
\* every call
moduleRenderer(modulePath) == [kind |-> "module", name |-> modulePath.name]

\* the Renderer | string arguments of setRoute and setNotFound
RendererArgs == {FnText, FnStream, FnBad, ModulePage}

\* what await renderer() gives: the module "./page" exports a function that
\* returns a JSX element
Invoke(renderer) ==
    IF renderer.kind = "module" THEN JsxPage
    ELSE IF renderer.name = "text" THEN TextPage
    ELSE IF renderer.name = "stream" THEN StreamPage
    ELSE IF renderer.name = "throw" THEN Thrown
    ELSE NumberPage

\* react-dom/server renderToReadableStream(element): the chunks of <tag></tag>
renderToReadableStream(element) ==
    [type |-> "stream",
     data |-> << <<"<">> \o element.data[1] \o <<">">>,
                 <<"<", "/">> \o element.data[1] \o <<">">> >>]

RECURSIVE DecodeChunks(_)
\* res = ''; for await (chunk of stream) res += streamDecoder.decode(chunk)
DecodeChunks(chunks) ==
    IF chunks = <<>> THEN <<>>
    ELSE utf8Decode(Head(chunks)) \o DecodeChunks(Tail(chunks))

renderToString(element) == DecodeChunks(renderToReadableStream(element).data)

isObjectJsxElement(obj) == obj.type = "jsx"

(***************************************************************************)
(* A JavaScript Map, in insertion order: a sequence of [key, val].         *)
(***************************************************************************)
MapHas(m, k) == \E i \in 1..Len(m) : m[i].key = k

MapIndex(m, k) == CHOOSE i \in 1..Len(m) : m[i].key = k

MapGet(m, k) == IF MapHas(m, k) THEN m[MapIndex(m, k)].val ELSE Undefined

\* Map.set on a key that is not there, as an array push would do it
MapSetAppend(m, k, v) == Append(m, [key |-> k, val |-> v])

\* Map.set: the value of a key that is there is replaced where it stands,
\* a new key goes last
MapSet(m, k, v) ==
    IF MapHas(m, k)
    THEN [m EXCEPT ![MapIndex(m, k)] = [key |-> k, val |-> v]]
    ELSE Append(m, [key |-> k, val |-> v])

(***************************************************************************)
(* The file system.  A path of the disk is the sequence of the segments of *)
(* a normalized relative path (the empty sequence is the working           *)
(* directory); disk maps each path that exists to a directory or to a file *)
(* and its bytes.                                                          *)
(***************************************************************************)
DirNode == [kind |-> "dir", data |-> <<>>]
FileNode(bytes) == [kind |-> "file", data |-> bytes]

IsPrefix(p, q) == Len(p) <= Len(q) /\ SubSeq(q, 1, Len(p)) = p
IsProperPrefix(p, q) == Len(p) < Len(q) /\ SubSeq(q, 1, Len(p)) = p

FsExists(d, p) == p = <<>> \/ p \in DOMAIN d
FsIsDir(d, p) == p = <<>> \/ (p \in DOMAIN d /\ d[p].kind = "dir")
FsIsFile(d, p) == p \in DOMAIN d /\ d[p].kind = "file"

\* fs/promises stat(path): "file", "dir", or the error code it throws.  A path
\* that runs through a regular file (or names one with a trailing slash) is
\* ENOTDIR, a path that is not there is ENOENT
stat(d, path) ==
    LET p == NormSegs(path) IN
    IF \E i \in 0..(Len(p) - 1) : FsIsFile(d, SubSeq(p, 1, i)) THEN "ENOTDIR"
    ELSE IF ~ FsExists(d, p) THEN "ENOENT"
    ELSE IF FsIsDir(d, p) THEN "dir"
    ELSE IF path # <<>> /\ Last(path) = "/" THEN "ENOTDIR"
    ELSE "file"

\* the disk with path p mapped to node n
FsPut(d, p, n) == [q \in DOMAIN d \cup {p} |-> IF q = p THEN n ELSE d[q]]

\* the paths directly inside directory p
FsChildren(d, p) == {q \in DOMAIN d : Len(q) = Len(p) + 1 /\ IsPrefix(p, q)}

\* rm(path, {recursive: true, force: true}): path and all below it are gone
rm(d, p) == [q \in {x \in DOMAIN d : ~ IsPrefix(p, x)} |-> d[q]]

\* mkdir(path, {recursive: true}): every missing directory of the path is
\* made; a regular file on the way is an error
mkdirRecursive(d, path) ==
    LET p == NormSegs(path)
        pre == {SubSeq(p, 1, i) : i \in 1..Len(p)}
    IN  IF \E q \in pre : FsIsFile(d, q)
        THEN [err |-> IF FsIsFile(d, p) THEN "EEXIST" ELSE "ENOTDIR", disk |-> d]
        ELSE [err |-> "",
              disk |-> [q \in DOMAIN d \cup pre |-> IF q \in DOMAIN d THEN d[q] ELSE DirNode]]

\* mkdir(path): the directory is made; it is an error if the path exists or
\* its parent does not
mkdir(d, p) ==
    IF FsExists(d, p) THEN [err |-> "EEXIST", disk |-> d]
    ELSE IF ~ FsExists(d, Front(p)) THEN [err |-> "ENOENT", disk |-> d]
    ELSE IF ~ FsIsDir(d, Front(p)) THEN [err |-> "ENOTDIR", disk |-> d]
    ELSE [err |-> "", disk |-> FsPut(d, p, DirNode)]

\* Bun.write(path, bytes): the file is made or overwritten; it is an error if
\* the path is a directory or its parent is none
write(d, p, bytes) ==
    IF p = <<>> \/ FsIsDir(d, p) THEN [err |-> "EISDIR", disk |-> d]
    ELSE IF ~ FsExists(d, Front(p)) THEN [err |-> "ENOENT", disk |-> d]
    ELSE IF ~ FsIsDir(d, Front(p)) THEN [err |-> "ENOTDIR", disk |-> d]
    ELSE [err |-> "", disk |-> FsPut(d, p, FileNode(bytes))]

(***************************************************************************)
(* The names the model's applications use.                                 *)
(***************************************************************************)
IndexHtml == <<"i", "n", "d", "e", "x", ".", "h", "t", "m", "l">>
NotFoundHtml == <<"4", "0", "4", ".", "h", "t", "m", "l">>
\* the other filenames an application sets
AltIndex == <<"i">>
AltNotFound == <<"n">>
Pub == <<"p", "u", "b">>
Alt == <<"a", "l", "t">>
Dist == <<"d", "i", "s", "t">>
StaticBytes == <<"S", "T", "A", "T", "I", "C">>

\* the route keys an application registers
RouteKeys ==
    { <<"/">>, <<"/", "a">>, <<"/", "a", "/">>, <<"/">> \o IndexHtml }
\* the prefixes an application maps: two well formed, one with no leading
\* and one with no trailing slash
StaticRoutes == { <<"/">>, <<"/", "s", "/">>, <<"s", "/">>, <<"/", "s">> }
StaticDirs == { Pub }
\* the paths a client requests
ReqPaths ==
    { <<"/">>, <<"/", "a">>, <<"/", "a", "/">>, <<"/">> \o IndexHtml,
      <<"/", "i">>, <<"/", "z">>, <<"/", "f">>, <<"/", "f", "/", "x">>,
      <<"/", "s", "/", "f">>, <<"/", "s", "/", "d">>,
      <<"/", "s", "/", ".", ".", "/", "f">> }

\* the disk a run starts with: pub/index.html, pub/f, pub/d/g, a second
\* directory alt with the files alt/f and alt/s, and no dist
InitDisk ==
    LET ix == <<Pub, IndexHtml>>
        f == <<Pub, <<"f">> >>
        dd == <<Pub, <<"d">> >>
        g == <<Pub, <<"d">>, <<"g">> >>
        af == <<Alt, <<"f">> >>
        as == <<Alt, <<"s">> >>
    IN  [p \in {<<Pub>>, ix, f, dd, g, <<Alt>>, af, as} |->
            IF p = <<Pub>> \/ p = dd \/ p = <<Alt>> THEN DirNode
            ELSE IF p = ix THEN FileNode(StaticBytes)
            ELSE IF p = f THEN FileNode(<<"F">>)
            ELSE IF p = g THEN FileNode(<<"G">>)
            ELSE IF p = af THEN FileNode(<<"A", "L", "T">>)
            ELSE FileNode(<<"S">>)]

(***************************************************************************)
(* The state.                                                              *)
(***************************************************************************)
VARIABLES
    routes,            \* SiteGenerator.routes: Map<string, Renderer>
    staticMappings,    \* SiteGenerator.staticMappings: Map<string, string>
    indexFilename,     \* SiteGenerator.indexFilename
    notFoundFilename,  \* SiteGenerator.notFoundFilename
    regLog,            \* history: the registrations made, [key, val], in order
    thrown,            \* the error the last call threw, "" when it returned
    disk,              \* the file system
    pc,                \* "setup", "serving", "building", "built", "failed", "exited"
    response,          \* the Response of the last request
    build,             \* the build under way: its arguments and loop positions
    writes,            \* history: the files the build wrote, in order
    argv,              \* the tokens the CLI was started with
    exitCode           \* process.exit's code, -1 while the process runs

vars == <<routes, staticMappings, indexFilename, notFoundFilename, regLog, thrown,
          disk, pc, response, build, writes, argv, exitCode>>

siteVars == <<routes, staticMappings, indexFilename, notFoundFilename>>

NoResponse ==
    [status |-> 0, kind |-> "none", path |-> <<>>, bodyType |-> "none",
     body |-> <<>>, renderer |-> Undefined, file |-> <<>>, statted |-> {}]
NoBuild == [outDir |-> <<>>, clearOutDir |-> FALSE, sIdx |-> 0, rIdx |-> 0, n |-> 0]

(***************************************************************************)
(* SiteGenerator.reqHandler.                                               *)
(***************************************************************************)
RECURSIVE SkipDots(_)
SkipDots(s) == IF s # <<>> /\ Head(s) = "." THEN SkipDots(Tail(s)) ELSE s

RECURSIVE stripDotsOnce(_)
\* the replace without the g flag: only the first match is removed
stripDotsOnce(s) ==
    IF s = <<>> THEN <<>>
    ELSE IF Len(s) >= 3 /\ s[1] = "/" /\ s[2] = "." /\ s[3] = "."
         THEN SkipDots(Tail(s))
         ELSE <<Head(s)>> \o stripDotsOnce(Tail(s))

RECURSIVE stripDots(_)
\* dirPath.replace(/\/\.{2,}/g, ''): every '/' followed by two or more dots
\* is removed with all the dots that follow it, from left to right
stripDots(s) ==
    IF s = <<>> THEN <<>>
    ELSE IF Len(s) >= 3 /\ s[1] = "/" /\ s[2] = "." /\ s[3] = "."
         THEN stripDots(SkipDots(Tail(s)))
         ELSE <<Head(s)>> \o stripDots(Tail(s))

\* the routes a handler tries that strips no index suffix
CandidatesNoStrip(path) == <<path, path \o <<"/">> >>

\* the routes a handler tries that also strips a trailing slash
CandidatesSlashStripped(path) ==
    <<path, path \o <<"/">> >>
    \o (IF endsWith(path, <<"/">> \o indexFilename)
        THEN << substring(path, 0, Len(path) - Len(indexFilename)) >>
        ELSE <<>>)
    \o (IF Len(path) > 1 /\ endsWith(path, <<"/">>) THEN <<Front(path)>> ELSE <<>>)

\* const routes = [path, path + '/'], and the path without its index suffix
Candidates(path) ==
    <<path, path \o <<"/">> >>
    \o (IF endsWith(path, <<"/">> \o indexFilename)
        THEN << substring(path, 0, Len(path) - Len(indexFilename)) >>
        ELSE <<>>)

\* the first candidate that is a key of routes, <<>> when there is none
MatchedKey(path) ==
    LET c == Candidates(path)
        hits == {i \in 1..Len(c) : MapHas(routes, c[i])}
    IN  IF hits = {} THEN <<>>
        ELSE c[CHOOSE i \in hits : \A j \in hits : i <= j]

\* toResponseBody: a JSX element is rendered to a stream, anything else is
\* returned as it is
toResponseBody(renderResult) ==
    IF isObjectJsxElement(renderResult) THEN renderToReadableStream(renderResult)
    ELSE renderResult

\* the bytes of the body of new Response(body): a string is encoded, a stream
\* is read to its end, any other value is converted to a string first
WireBytes(body) ==
    IF body.type = "stream" THEN Concat(body.data)
    ELSE IF body.type = "bytes" THEN body.data[1]
    ELSE utf8Encode(body.data[1])

\* 'No route was found, and no 404 page was found either'
DiagnosticText ==
    <<"N", "o", " ", "r", "o", "u", "t", "e", " ", "w", "a", "s", " ", "f",
      "o", "u", "n", "d", ",", " ", "a", "n", "d", " ", "n", "o", " ", "4",
      "0", "4", " ", "p", "a", "g", "e", " ", "w", "a", "s", " ", "f", "o",
      "u", "n", "d", " ", "e", "i", "t", "h", "e", "r">>

\* the file a static mapping names for a path that starts with its route:
\* the rest of the path, with a leading slash, sanitised, under staticDir
StaticFilePath(route, staticDir, path) ==
    LET cut == substringFrom(path, Len(route))
        slashed == IF ~ startsWith(cut, <<"/">>) THEN <<"/">> \o cut ELSE cut
        dirPath == stripDots(slashed)
    IN  joinPaths(staticDir, dirPath)

RECURSIVE StaticScan(_, _, _)
\* for (const [route, staticDir] of this.staticMappings): the file to serve,
\* or none, or the error stat threw; seen are the paths handed to stat, each
\* with the directory of its mapping
StaticScan(i, path, seen) ==
    IF i > Len(staticMappings)
    THEN [found |-> "none", file |-> <<>>, statted |-> seen]
    ELSE LET route == staticMappings[i].key
             staticDir == staticMappings[i].val
         IN  IF ~ startsWith(path, route) THEN StaticScan(i + 1, path, seen)
             ELSE LET filePath == StaticFilePath(route, staticDir, path)
                      fileInfo == stat(disk, filePath)
                      seen2 == seen \cup {<<staticDir, filePath>>}
                  IN  IF fileInfo = "file"
                      THEN [found |-> "file", file |-> filePath, statted |-> seen2]
                      ELSE IF fileInfo = "dir" \/ fileInfo = "ENOENT"
                           THEN StaticScan(i + 1, path, seen2)
                           ELSE [found |-> fileInfo, file |-> filePath, statted |-> seen2]

\* the Response of a rendered page
Rendered(status, kind, path, renderer, statted) ==
    LET body == toResponseBody(Invoke(renderer)) IN
    IF body.type = "throws"
    THEN [status |-> 0, kind |-> "error", path |-> path, bodyType |-> "renderer error",
          body |-> <<>>, renderer |-> renderer, file |-> <<>>, statted |-> statted]
    ELSE
    [status |-> status, kind |-> kind, path |-> path, bodyType |-> body.type,
     body |-> WireBytes(body), renderer |-> renderer, file |-> <<>>,
     statted |-> statted]

\* this.routes.get('/' + this.notFoundFilename)
NotFoundLookup == MapGet(routes, <<"/">> \o notFoundFilename)

\* reqHandler(req), for a request whose URL has the path `path`
reqHandler(path) ==
    LET key == MatchedKey(path) IN
    IF key # <<>>
    THEN Rendered(200, "page", path, MapGet(routes, key), {})
    ELSE LET scan == StaticScan(1, path, {})
             notFoundRenderer == NotFoundLookup
         IN  IF scan.found = "file"
             THEN [status |-> 200, kind |-> "static", path |-> path, bodyType |-> "file",
                   body |-> disk[NormSegs(scan.file)].data, renderer |-> Undefined,
                   file |-> scan.file, statted |-> scan.statted]
             ELSE IF scan.found # "none"
             THEN [status |-> 0, kind |-> "error", path |-> path, bodyType |-> scan.found,
                   body |-> <<>>, renderer |-> Undefined, file |-> scan.file,
                   statted |-> scan.statted]
             ELSE IF notFoundRenderer = Undefined
             THEN [status |-> 404, kind |-> "diag", path |-> path, bodyType |-> "string",
                   body |-> DiagnosticText, renderer |-> Undefined, file |-> <<>>,
                   statted |-> scan.statted]
             ELSE Rendered(404, "notfound", path, notFoundRenderer, scan.statted)

(***************************************************************************)
(* Construction and the registration calls.                                *)
(***************************************************************************)
Init ==
    /\ routes = <<>>
    /\ staticMappings = <<>>
    /\ indexFilename = IndexHtml
    /\ notFoundFilename = NotFoundHtml
    /\ regLog = <<>>
    /\ thrown = ""
    /\ disk = InitDisk
    /\ pc = "setup"
    /\ response = NoResponse
    /\ build = NoBuild
    /\ writes = <<>>
    /\ argv = <<>>
    /\ exitCode = -1

\* the Renderer a Renderer | string argument stands for
AsRenderer(renderer) ==
    IF renderer.kind = "string" THEN moduleRenderer(renderer) ELSE renderer

setIndexFilename(filename) ==
    /\ pc = "setup"
    /\ indexFilename' = filename
    /\ thrown' = ""
    /\ UNCHANGED <<routes, staticMappings, notFoundFilename, regLog, disk, pc,
                   response, build, writes, argv, exitCode>>

setNotFoundFilename(filename) ==
    /\ pc = "setup"
    /\ notFoundFilename' = filename
    /\ thrown' = ""
    /\ UNCHANGED <<routes, staticMappings, indexFilename, regLog, disk, pc,
                   response, build, writes, argv, exitCode>>

setRoute(route, renderer) ==
    /\ pc = "setup"
    /\ MapHas(routes, route) \/ Len(routes) < MaxRoutes
    /\ routes' = MapSet(routes, route, AsRenderer(renderer))
    /\ thrown' = ""
    /\ UNCHANGED <<staticMappings, indexFilename, notFoundFilename, disk, pc,
                   response, build, writes, argv, exitCode>>

\* a mapStatic that checks the initial slash only
mapStaticLeadingOnly(route, directory) ==
    /\ pc = "setup"
    /\ IF ~ startsWith(route, <<"/">>)
       THEN /\ thrown' = "Static routes must begin with an initial slash"
            /\ UNCHANGED staticMappings
       ELSE /\ staticMappings' = MapSet(staticMappings, route, directory)
            /\ thrown' = ""
    /\ UNCHANGED <<routes, indexFilename, notFoundFilename, regLog, disk, pc,
                   response, build, writes, argv, exitCode>>

mapStatic(route, directory) ==
    /\ pc = "setup"
    /\ IF ~ startsWith(route, <<"/">>)
       THEN /\ thrown' = "Static routes must begin with an initial slash"
            /\ UNCHANGED staticMappings
       ELSE IF ~ endsWith(route, <<"/">>)
       THEN /\ thrown' = "Static routes must end with a trailing slash"
            /\ UNCHANGED staticMappings
       ELSE /\ staticMappings' = MapSet(staticMappings, route, directory)
            /\ thrown' = ""
    /\ UNCHANGED <<routes, indexFilename, notFoundFilename, regLog, disk, pc,
                   response, build, writes, argv, exitCode>>

setNotFound(renderer) ==
    LET route == <<"/">> \o notFoundFilename IN
    /\ pc = "setup"
    /\ MapHas(routes, route) \/ Len(routes) < MaxRoutes
    /\ routes' = MapSet(routes, route, AsRenderer(renderer))
    /\ thrown' = ""
    /\ UNCHANGED <<staticMappings, indexFilename, notFoundFilename, disk, pc,
                   response, build, writes, argv, exitCode>>

(***************************************************************************)
(* Serve mode.                                                             *)
(***************************************************************************)
\* serve(port, hostname): Bun.serve starts to hand requests to reqHandler
serve ==
    /\ pc = "setup"
    /\ pc' = "serving"
    /\ thrown' = ""
    /\ UNCHANGED <<siteVars, regLog, disk, response, build, writes, argv, exitCode>>

\* one request, handled to its Response
Request(path) ==
    /\ pc = "serving"
    /\ response = NoResponse
    /\ response' = reqHandler(path)
    /\ UNCHANGED <<siteVars, regLog, thrown, disk, pc, build, writes, argv, exitCode>>

\* Bun.serve sends the Response the handler returned, or its error page when
\* the handler threw, and the server waits for the next request
Deliver ==
    /\ pc = "serving"
    /\ response # NoResponse
    /\ response' = NoResponse
    /\ UNCHANGED <<siteVars, regLog, thrown, disk, pc, build, writes, argv, exitCode>>

(***************************************************************************)
(* copyRecursive and SiteGenerator.build.  The build is one step for its   *)
(* preparation of the output directory, one for each static mapping and    *)
(* one for each route, in the order of the code's loops.                   *)
(***************************************************************************)
RECURSIVE CopyEntries(_, _, _, _, _)
\* the while loop of copyRecursive: the entries below the source, level by
\* level (the order inside a level is readdir's); a directory is made with
\* mkdir, a file is written; the first error ends the copy
CopyEntries(d, src, tgt, todo, written) ==
    IF todo = {} THEN [err |-> "", disk |-> d, written |-> written]
    ELSE LET e == CHOOSE x \in todo : \A y \in todo : Len(x) <= Len(y)
             targetPath == tgt \o SubSeq(e, Len(src) + 1, Len(e))
             r == IF d[e].kind = "dir" THEN mkdir(d, targetPath)
                  ELSE write(d, targetPath, d[e].data)
             w == IF d[e].kind = "dir" THEN written
                  ELSE Append(written, [path |-> targetPath, data |-> d[e].data])
         IN  IF r.err # "" THEN [err |-> r.err, disk |-> d, written |-> written]
             ELSE CopyEntries(r.disk, src, tgt, todo \ {e}, w)

copyRecursive(d, source, target) ==
    LET src == NormSegs(source)
        tgt == NormSegs(target)
        sourceStat == stat(d, source)
        targetStat == stat(d, target)
    IN  IF sourceStat \notin {"file", "dir"}
        THEN [err |-> sourceStat, disk |-> d, written |-> <<>>]
        ELSE IF sourceStat = "file"
        THEN LET w == write(d, tgt, d[src].data)
             IN  [err |-> w.err, disk |-> w.disk,
                  written |-> IF w.err = "" THEN <<[path |-> tgt, data |-> d[src].data]>>
                              ELSE <<>>]
        ELSE LET made == IF targetStat = "ENOENT" THEN mkdirRecursive(d, target)
                         ELSE IF targetStat = "dir" THEN [err |-> "", disk |-> d]
                         ELSE IF targetStat = "file"
                         THEN [err |-> "Cannot copy to non-directory target", disk |-> d]
                         ELSE [err |-> targetStat, disk |-> d]
             IN  IF made.err # "" THEN [err |-> made.err, disk |-> d, written |-> <<>>]
                 ELSE CopyEntries(made.disk, src, tgt,
                                  {q \in DOMAIN d : IsProperPrefix(src, q)}, <<>>)

\* the history entries of the files a static mapping's copy wrote
RECURSIVE StaticWrites(_, _)
StaticWrites(written, key) ==
    IF written = <<>> THEN <<>>
    ELSE <<[path |-> Head(written).path, by |-> "static", key |-> key,
            data |-> Head(written).data]>> \o StaticWrites(Tail(written), key)

\* a conversion that writes an empty file where the renderer threw or
\* returned no RenderResult
BuildResultLenient(render) ==
    IF render.type = "string" THEN [err |-> "", bytes |-> utf8Encode(render.data[1])]
    ELSE IF isObjectJsxElement(render)
    THEN [err |-> "", bytes |-> utf8Encode(renderToString(render))]
    ELSE IF render.type = "stream"
    THEN [err |-> "", bytes |-> utf8Encode(DecodeChunks(render.data))]
    ELSE IF render.type = "bytes" THEN [err |-> "", bytes |-> render.data[1]]
    ELSE [err |-> "", bytes |-> <<>>]

\* build's conversion of a render to the bytes Bun.write writes: a string is
\* written as it is, a JSX element is rendered to a string, a stream is
\* decoded chunk by chunk into a string, a Uint8Array is written as it is,
\* and anything else is the error 'Invalid render result'
BuildResult(render) ==
    IF render.type = "throws" THEN [err |-> "renderer error", bytes |-> <<>>]
    ELSE IF render.type = "string" THEN [err |-> "", bytes |-> utf8Encode(render.data[1])]
    ELSE IF isObjectJsxElement(render)
    THEN [err |-> "", bytes |-> utf8Encode(renderToString(render))]
    ELSE IF render.type = "stream"
    THEN [err |-> "", bytes |-> utf8Encode(DecodeChunks(render.data))]
    ELSE IF render.type = "bytes" THEN [err |-> "", bytes |-> render.data[1]]
    ELSE [err |-> "Invalid render result", bytes |-> <<>>]

\* the file a route is rendered to: join(outDir, route), and the index
\* filename after a trailing slash
OutFile(outDir, route) ==
    LET outFile == joinPaths(outDir, route)
    IN  IF endsWith(outFile, <<"/">>) THEN outFile \o indexFilename ELSE outFile

\* a build whose routes loop does not wait for the static loop
StaticLoopIgnored == TRUE

\* the routes loop of build starts when the static loop has ended
StaticLoopOver == build.sIdx > Len(staticMappings)

\* a build that removes the children of its output directory whatever
\* clearOutDir is
buildPrepareAlwaysClears(outDir, clearOutDir) ==
    LET out == NormSegs(outDir)
        res == IF FsExists(disk, out)
               THEN [err |-> "",
                     disk |-> [q \in {x \in DOMAIN disk : ~ IsProperPrefix(out, x)}
                                 |-> disk[q]]]
               ELSE mkdirRecursive(disk, outDir)
    IN  /\ disk' = res.disk
        /\ build' = [outDir |-> outDir, clearOutDir |-> clearOutDir, sIdx |-> 1, rIdx |-> 1,
                     n |-> build.n + 1]
        /\ writes' = <<>>
        /\ pc' = IF res.err = "" THEN "building" ELSE "failed"
        /\ thrown' = res.err

\* build(outDir, clearOutDir), up to its first loop: the output directory is
\* made, or its children are removed
buildPrepare(outDir, clearOutDir) ==
    LET out == NormSegs(outDir)
        outDirExists == FsExists(disk, out)
        cleared == IF FsIsDir(disk, out)
                   THEN [err |-> "",
                         disk |-> [q \in {x \in DOMAIN disk : ~ IsProperPrefix(out, x)}
                                     |-> disk[q]]]
                   ELSE [err |-> "ENOTDIR", disk |-> disk]
        res == IF outDirExists
               THEN IF clearOutDir THEN cleared ELSE [err |-> "", disk |-> disk]
               ELSE mkdirRecursive(disk, outDir)
    IN  /\ disk' = res.disk
        /\ build' = [outDir |-> outDir, clearOutDir |-> clearOutDir, sIdx |-> 1, rIdx |-> 1,
                     n |-> build.n + 1]
        /\ writes' = <<>>
        /\ pc' = IF res.err = "" THEN "building" ELSE "failed"
        /\ thrown' = res.err

BuildStart(outDir, clearOutDir) ==
    /\ pc = "setup"
    /\ buildPrepare(outDir, clearOutDir)
    /\ UNCHANGED <<siteVars, regLog, response, argv, exitCode>>

\* one round of for (const [route, staticDir] of this.staticMappings)
BuildStatic ==
    /\ pc = "building"
    /\ build.sIdx <= Len(staticMappings)
    /\ LET route == staticMappings[build.sIdx].key
           staticDir == staticMappings[build.sIdx].val
           copyDir == joinPaths(build.outDir, route)
           res == copyRecursive(disk, staticDir, copyDir)
       IN  /\ disk' = res.disk
           /\ writes' = writes \o StaticWrites(res.written, route)
           /\ build' = [build EXCEPT !.sIdx = @ + 1]
           /\ pc' = IF res.err = "" THEN "building" ELSE "failed"
           /\ thrown' = res.err
    /\ UNCHANGED <<siteVars, regLog, response, argv, exitCode>>

\* one round of for (const [route, renderer] of this.routes)
BuildRoute ==
    /\ pc = "building"
    /\ StaticLoopOver
    /\ build.rIdx <= Len(routes)
    /\ LET route == routes[build.rIdx].key
           renderer == routes[build.rIdx].val
           res == BuildResult(Invoke(renderer))
           outFile == OutFile(build.outDir, route)
           made == mkdirRecursive(disk, dirname(outFile))
           wrote == IF outFile # <<>> /\ Last(outFile) = "/"
                    THEN [err |-> "EISDIR", disk |-> made.disk]
                    ELSE write(made.disk, NormSegs(outFile), res.bytes)
           err == IF res.err # "" THEN res.err
                  ELSE IF made.err # "" THEN made.err ELSE wrote.err
       IN  /\ disk' = IF res.err # "" THEN disk
                      ELSE IF made.err # "" THEN made.disk ELSE wrote.disk
           /\ writes' = IF err = ""
                        THEN Append(writes, [path |-> NormSegs(outFile), by |-> "page",
                                             key |-> route, data |-> res.bytes])
                        ELSE writes
           /\ build' = [build EXCEPT !.rIdx = @ + 1]
           /\ pc' = IF err = "" THEN "building" ELSE "failed"
           /\ thrown' = err
    /\ UNCHANGED <<siteVars, regLog, response, argv, exitCode>>

\* both loops are over: build returns
BuildFinish ==
    /\ pc = "building"
    /\ build.sIdx > Len(staticMappings)
    /\ build.rIdx > Len(routes)
    /\ pc' = "built"
    /\ UNCHANGED <<siteVars, regLog, thrown, disk, response, build, writes, argv, exitCode>>

(***************************************************************************)
(* The serving application: it registers routes, a not-found page and      *)
(* static mappings, then serves.                                           *)
(***************************************************************************)
ServeRenderers == {FnText, FnBad, ModulePage}

SetIndexFilename == \E f \in {IndexHtml, AltIndex} : setIndexFilename(f)
SetNotFoundFilename == \E f \in {NotFoundHtml, AltNotFound} : setNotFoundFilename(f)
SetRoute ==
    /\ \E route \in RouteKeys, renderer \in ServeRenderers : setRoute(route, renderer)
    /\ UNCHANGED regLog
MapStatic == \E route \in StaticRoutes, dir \in StaticDirs : mapStatic(route, dir)
SetNotFound ==
    /\ \E renderer \in ServeRenderers : setNotFound(renderer)
    /\ UNCHANGED regLog
Serve == serve
HandleRequest == \E path \in ReqPaths : Request(path)

Next ==
    \/ SetIndexFilename
    \/ SetRoute
    \/ MapStatic
    \/ SetNotFound
    \/ Serve
    \/ HandleRequest
    \/ Deliver

Spec == Init /\ [][Next]_vars

(***************************************************************************)
(* The building application: it registers routes and static mappings, then *)
(* builds into dist.                                                       *)
(***************************************************************************)
BuildKeys == { <<"/">>, <<"/">> \o IndexHtml, <<"/", "a", "/">> }
BuildRenderers == {FnText, FnStream, FnBad, ModulePage}

SetBuildRoute ==
    /\ \E route \in BuildKeys, renderer \in BuildRenderers : setRoute(route, renderer)
    /\ UNCHANGED regLog
Build == \E clearOutDir \in BOOLEAN : BuildStart(Dist, clearOutDir)

NextBuild ==
    \/ SetIndexFilename
    \/ SetBuildRoute
    \/ MapStatic
    \/ Build
    \/ BuildStatic
    \/ BuildRoute
    \/ BuildFinish

SpecBuild == Init /\ [][NextBuild]_vars

(***************************************************************************)
(* ParsedArgs and SiteGenerator.cli.  An option's value is a record: kind  *)
(* is "undefined" (the option is not there), "null" (it has no value) or   *)
(* "string".                                                               *)
(***************************************************************************)
OptUndefined == [kind |-> "undefined", str |-> <<>>]
OptNull == [kind |-> "null", str |-> <<>>]
OptString(str) == [kind |-> "string", str |-> str]

\* String.prototype.toLowerCase, on the letters the model's tokens use
LowerChar(c) ==
    CASE c = "T" -> "t" [] c = "R" -> "r" [] c = "U" -> "u" [] c = "E" -> "e"
      [] c = "Y" -> "y" [] c = "S" -> "s" [] c = "N" -> "n" [] c = "O" -> "o"
      [] OTHER -> c

toLowerCase(str) == [i \in 1..Len(str) |-> LowerChar(str[i])]

RECURSIVE ParseArgs(_, _, _)
\* the for loop of ParsedArgs.parse: a token that starts with '--' sets an
\* option, any other token is pushed to the arguments
ParseArgs(tokens, argsRes, optionsRes) ==
    IF tokens = <<>> THEN [args |-> argsRes, options |-> optionsRes]
    ELSE LET arg == Head(tokens)
             eqIdx == indexOf(arg, "=")
             key == IF eqIdx = -1 THEN substringFrom(arg, 2) ELSE substring(arg, 2, eqIdx)
             value == IF eqIdx = -1 THEN OptNull ELSE OptString(substringFrom(arg, eqIdx + 1))
         IN  IF startsWith(arg, <<"-", "-">>)
             THEN ParseArgs(Tail(tokens), argsRes, MapSet(optionsRes, key, value))
             ELSE ParseArgs(Tail(tokens), Append(argsRes, arg), optionsRes)

\* a parse that never drops the first two arguments
parseUnsliced(rawArgs, sliceFirstTwo) == ParseArgs(rawArgs, <<>>, <<>>)

\* ParsedArgs.parse(rawArgs, sliceFirstTwo)
parse(rawArgs, sliceFirstTwo) ==
    ParseArgs(IF sliceFirstTwo THEN SubSeq(rawArgs, 3, Len(rawArgs)) ELSE rawArgs,
              <<>>, <<>>)

\* ParsedArgs.getOption(arg): this.options.get(arg)
getOption(parsed, arg) ==
    IF MapHas(parsed.options, arg) THEN MapGet(parsed.options, arg) ELSE OptUndefined

\* ParsedArgs.getOptionOr(arg, defaultVal): this.getOption(arg) ?? defaultVal
getOptionOr(parsed, arg, defaultVal) ==
    IF getOption(parsed, arg).kind = "string" THEN getOption(parsed, arg).str
    ELSE defaultVal

TrueValues ==
    << <<"t", "r", "u", "e">>, <<"y", "e", "s">>, <<"y">>, <<"1">> >>

\* ParsedArgs.isOptionTrue(arg, useNoValueAsTrue, trueValues, trueValuesCaseSensitive)
isOptionTrue(parsed, arg, useNoValueAsTrue, trueValues, trueValuesCaseSensitive) ==
    LET val == getOption(parsed, arg) IN
    IF val.kind = "undefined" THEN FALSE
    ELSE IF val.kind = "null" THEN useNoValueAsTrue
    ELSE IF trueValuesCaseSensitive
         THEN \E i \in 1..Len(trueValues) : trueValues[i] = val.str
         ELSE \E i \in 1..Len(trueValues) :
                 toLowerCase(val.str) = toLowerCase(trueValues[i])

BuildWord == <<"b", "u", "i", "l", "d">>
ServeWord == <<"s", "e", "r", "v", "e">>
OutKey == <<"o", "u", "t">>
ClearOutKey == <<"c", "l", "e", "a", "r", "-", "o", "u", "t">>

Includes(seq, x) == \E i \in 1..Len(seq) : seq[i] = x

\* cli(parsedArgs = ParsedArgs.parse(process.argv)), up to the first await:
\* build starts, or the server starts, or the help is printed and the
\* process exits with 1
cli ==
    LET parsedArgs == parse(argv, TRUE) IN
    /\ pc = "setup"
    /\ exitCode = -1
    /\ IF Includes(parsedArgs.args, BuildWord)
       THEN /\ buildPrepare(getOptionOr(parsedArgs, OutKey, Dist),
                            isOptionTrue(parsedArgs, ClearOutKey, TRUE, TrueValues, FALSE))
            /\ UNCHANGED <<response, exitCode>>
       ELSE IF Includes(parsedArgs.args, ServeWord)
       THEN /\ pc' = "serving"
            /\ thrown' = ""
            /\ UNCHANGED <<disk, build, writes, response, exitCode>>
       ELSE /\ pc' = "exited"
            /\ exitCode' = 1
            /\ thrown' = ""
            /\ UNCHANGED <<disk, build, writes, response>>
    /\ UNCHANGED <<siteVars, regLog, argv>>

\* await this.build(outDir, clearOutDir) returned: process.exit(0)
cliExit ==
    /\ pc = "built"
    /\ exitCode = -1
    /\ pc' = "exited"
    /\ exitCode' = 0
    /\ UNCHANGED <<siteVars, regLog, thrown, disk, response, build, writes, argv>>

(***************************************************************************)
(* The command line application: the site of the README (a static mapping, *)
(* two routes and a not-found page), started with any command line of at   *)
(* most MaxArgs tokens.                                                    *)
(***************************************************************************)
MaxArgs == 3

Dashes(key) == <<"-", "-">> \o key
WithValue(key, value) == <<"-", "-">> \o key \o <<"=">> \o value

Tokens ==
    { BuildWord, ServeWord,
      Dashes(ClearOutKey),
      WithValue(ClearOutKey, <<"f", "a", "l", "s", "e">>),
      WithValue(ClearOutKey, <<"T", "R", "U", "E">>),
      WithValue(ClearOutKey, <<"1">>),
      WithValue(ClearOutKey, <<>>),
      Dashes(OutKey),
      WithValue(OutKey, <<"o">>),
      WithValue(OutKey, <<"=">>),
      Dashes(<<>>),
      <<"o", "=", "b">> }

RECURSIVE SeqsUpTo(_, _)
\* the sequences of at most n elements of S
SeqsUpTo(S, n) ==
    IF n = 0 THEN {<<>>}
    ELSE LET shorter == SeqsUpTo(S, n - 1)
         IN  shorter \cup {Append(q, x) : q \in {r \in shorter : Len(r) = n - 1}, x \in S}

ReadmeRoutes ==
    << [key |-> <<"/">>, val |-> moduleRenderer(ModulePage)],
       [key |-> <<"/", "a">>, val |-> FnText],
       [key |-> <<"/">> \o NotFoundHtml, val |-> FnText] >>

InitCli ==
    /\ routes = ReadmeRoutes
    /\ staticMappings = << [key |-> <<"/", "s", "/">>, val |-> Pub] >>
    /\ indexFilename = IndexHtml
    /\ notFoundFilename = NotFoundHtml
    /\ regLog = <<>>
    /\ thrown = ""
    /\ disk = InitDisk
    /\ pc = "setup"
    /\ response = NoResponse
    /\ build = NoBuild
    /\ writes = <<>>
    /\ argv \in {<<<<"b", "u", "n">>, <<"s", "i", "t", "e">> >> \o t : t \in SeqsUpTo(Tokens, MaxArgs)}
    /\ exitCode = -1

Cli == cli
CliExit == cliExit

NextCli ==
    \/ Cli
    \/ BuildStatic
    \/ BuildRoute
    \/ BuildFinish
    \/ CliExit
    \/ HandleRequest
    \/ Deliver

SpecCli == InitCli /\ [][NextCli]_vars

(***************************************************************************)
(* The registering application: every registration it makes is logged, and *)
(* it makes at most MaxRegs of them before it serves.                      *)
(***************************************************************************)
MaxRegs == 3

RegKeys == { <<"/">>, <<"/", "a">> }
RegRenderers == {FnText, FnBad, ModulePage}

LogSetRoute ==
    /\ Len(regLog) < MaxRegs
    /\ \E route \in RegKeys, renderer \in RegRenderers :
          /\ setRoute(route, renderer)
          /\ regLog' = Append(regLog, [key |-> route, val |-> AsRenderer(renderer)])

LogSetNotFound ==
    /\ Len(regLog) < MaxRegs
    /\ \E renderer \in RegRenderers :
          /\ setNotFound(renderer)
          /\ regLog' = Append(regLog, [key |-> <<"/">> \o notFoundFilename,
                                       val |-> AsRenderer(renderer)])

NextReg ==
    \/ LogSetRoute
    \/ LogSetNotFound
    \/ SetNotFoundFilename
    \/ Serve
    \/ HandleRequest
    \/ Deliver

SpecReg == Init /\ [][NextReg]_vars

(***************************************************************************)
(* The static application: it maps static directories and serves; a client *)
(* requests any path of at most MaxPathLen characters.                     *)
(***************************************************************************)
PathChars == {"/", ".", "f", "s"}

RECURSIVE PathsOfLen(_)
\* the paths of n characters: a '/' and n - 1 characters
PathsOfLen(n) ==
    IF n = 1 THEN { <<"/">> }
    ELSE {Append(q, c) : q \in PathsOfLen(n - 1), c \in PathChars}

AnyRequest == \E n \in 1..MaxPathLen : \E path \in PathsOfLen(n) : Request(path)

NextGuard ==
    \/ MapStatic
    \/ Serve
    \/ AnyRequest
    \/ Deliver

SpecGuard == Init /\ [][NextGuard]_vars

(***************************************************************************)
(* The application with two static directories: it registers routes, maps  *)
(* prefixes to pub and to alt, and serves.                                 *)
(***************************************************************************)
TwoDirs == {Pub, Alt}
TwoDirRenderers == {FnText, ModulePage}

SetTwoDirRoute ==
    /\ \E route \in RouteKeys, renderer \in TwoDirRenderers : setRoute(route, renderer)
    /\ UNCHANGED regLog
MapStaticTwoDirs == \E route \in StaticRoutes, dir \in TwoDirs : mapStatic(route, dir)

NextTwoDirs ==
    \/ SetTwoDirRoute
    \/ MapStaticTwoDirs
    \/ Serve
    \/ HandleRequest
    \/ Deliver

SpecTwoDirs == Init /\ [][NextTwoDirs]_vars

(***************************************************************************)
(* The rebuilding application: its output directory may hold the files of  *)
(* an earlier run; it registers routes and maps prefixes to pub and alt,   *)
(* builds, and after a build that succeeded builds again, at most          *)
(* MaxBuilds times in all.                                                 *)
(***************************************************************************)
MaxBuilds == 2

OldFile == <<Dist, <<"o", "l", "d">> >>
OldIndex == <<Dist, IndexHtml>>
OldDir == <<Dist, <<"o">> >>
OldDeep == <<Dist, <<"o">>, <<"x">> >>
\* the disk with an output directory: dist/old, dist/index.html, dist/o/x
OldDisk ==
    [p \in DOMAIN InitDisk \cup {<<Dist>>, OldFile, OldIndex, OldDir, OldDeep} |->
        IF p \in DOMAIN InitDisk THEN InitDisk[p]
        ELSE IF p = <<Dist>> \/ p = OldDir THEN DirNode
        ELSE FileNode(<<"O", "L", "D">>)]

OutDirKeys == { <<"/">>, <<"/", "a">>, <<"/", "a", "/">> }
OutDirRenderers == {FnText, FnBad, FnThrow}
OutDirPrefixes == { <<"/">>, <<"/", "s", "/">> }

InitOutDir ==
    /\ routes = <<>>
    /\ staticMappings = <<>>
    /\ indexFilename = IndexHtml
    /\ notFoundFilename = NotFoundHtml
    /\ regLog = <<>>
    /\ thrown = ""
    /\ disk \in {InitDisk, OldDisk}
    /\ pc = "setup"
    /\ response = NoResponse
    /\ build = NoBuild
    /\ writes = <<>>
    /\ argv = <<>>
    /\ exitCode = -1

SetOutDirRoute ==
    /\ \E route \in OutDirKeys, renderer \in OutDirRenderers : setRoute(route, renderer)
    /\ UNCHANGED regLog
MapOutDirStatic == \E route \in OutDirPrefixes, dir \in TwoDirs : mapStatic(route, dir)

\* build is called again after a build that returned
BuildAgain ==
    /\ pc = "built"
    /\ build.n < MaxBuilds
    /\ \E clearOutDir \in BOOLEAN : buildPrepare(Dist, clearOutDir)
    /\ UNCHANGED <<siteVars, regLog, response, argv, exitCode>>

NextOutDir ==
    \/ SetOutDirRoute
    \/ MapOutDirStatic
    \/ Build
    \/ BuildStatic
    \/ BuildRoute
    \/ BuildFinish
    \/ BuildAgain

SpecOutDir == InitOutDir /\ [][NextOutDir]_vars

(***************************************************************************)
(* The claims.                                                             *)
(***************************************************************************)
RouteIdx == 1..Len(routes)
Slash(K) == K \o <<"/">>
Answered == response.kind # "none"

\* the bytes a render result stands for: the encoded text, the bytes, the
\* chunks of the stream one after the other, the rendered element, the
\* digits of a number
OutputBytes(render) ==
    IF render.type = "stream" THEN Concat(render.data)
    ELSE IF render.type = "jsx"
    THEN <<"<">> \o render.data[1] \o <<">", "<", "/">> \o render.data[1] \o <<">">>
    ELSE IF render.type = "bytes" THEN render.data[1]
    ELSE utf8Encode(render.data[1])

\* C1, as the spec states it: for every route registered at a key K that does
\* not end in '/', a request for K resolves to K's renderer, and a request
\* for K + '/' resolves to K's renderer too, unless a route is registered at
\* exactly K + '/', which is then the one returned.
C1_TrailingSlashEquivalence ==
    \A i \in RouteIdx :
        LET K == routes[i].key IN
        (Answered /\ ~ endsWith(K, <<"/">>)) =>
            /\ response.path = K =>
                  response.kind = "page" /\ response.renderer = routes[i].val
            /\ response.path = Slash(K) =>
                  /\ response.kind = "page"
                  /\ response.renderer = IF MapHas(routes, Slash(K))
                                         THEN MapGet(routes, Slash(K))
                                         ELSE routes[i].val

\* C1, amended: for every route registered at a key K that does not end in
\* '/', a request for K resolves to K's renderer with status 200; a request
\* for K + '/' resolves to the route registered at exactly K + '/' when there
\* is one, and when no route is registered at K + '/', at K + '//' or at the
\* index-stripped path it matches no page route at all (K is not tried).  The
\* equivalence runs the other way: a request for K resolves to the route
\* registered at K + '/' when none is registered at K.
C1_TrailingSlashOneWay ==
    \A i \in RouteIdx :
        LET K == routes[i].key IN
        /\ (Answered /\ ~ endsWith(K, <<"/">>)) =>
              /\ response.path = K =>
                    /\ response.kind = "page"
                    /\ response.status = 200
                    /\ response.renderer = routes[i].val
              /\ (response.path = Slash(K) /\ MapHas(routes, Slash(K))) =>
                    /\ response.kind = "page"
                    /\ response.renderer = MapGet(routes, Slash(K))
              /\ ( /\ response.path = Slash(K)
                   /\ ~ MapHas(routes, Slash(K))
                   /\ ~ MapHas(routes, Slash(Slash(K)))
                   /\ ~ endsWith(Slash(K), <<"/">> \o indexFilename) ) =>
                    response.kind # "page"
        /\ ( /\ Answered
             /\ Len(K) > 1
             /\ endsWith(K, <<"/">>)
             /\ response.path = Front(K)
             /\ ~ MapHas(routes, Front(K)) ) =>
              response.kind = "page" /\ response.renderer = routes[i].val

\* C1's case: a route at K, none at K + '/', and a request for K + '/' that
\* was answered 404
C1_Witness ==
    \E i \in RouteIdx :
        /\ ~ endsWith(routes[i].key, <<"/">>)
        /\ ~ MapHas(routes, Slash(routes[i].key))
        /\ response.path = Slash(routes[i].key)
        /\ response.status = 404

\* the path of the URL of a file the build wrote: the file's path below the
\* output directory, after a '/'
UrlPath(file) ==
    <<"/">> \o JoinSegs(SubSeq(file, Len(NormSegs(build.outDir)) + 1, Len(file)))

\* C2: for every output path P that build writes for a page route, a
\* serve-mode request for P returns status 200 with the output of the
\* renderer whose bytes are in the file at P after the build.
C2_ServeBuildConsistent ==
    pc = "built" =>
        \A j \in 1..Len(writes) :
            writes[j].by = "page" =>
                LET served == reqHandler(UrlPath(writes[j].path)) IN
                /\ served.status = 200
                /\ served.kind = "page"
                /\ served.body = disk[writes[j].path].data

\* C3, as the spec states it: for every route registered at a key K ending in
\* '/' and every configured index filename f, a request for K + f resolves to
\* the same renderer as a request for K (which is K's renderer).
C3_IndexSuffixEquivalence ==
    \A i \in RouteIdx :
        LET K == routes[i].key IN
        (Answered /\ endsWith(K, <<"/">>) /\ response.path = K \o indexFilename) =>
            response.kind = "page" /\ response.renderer = routes[i].val

\* C3, amended: for every route registered at a key K ending in '/' and every
\* configured index filename f, a request for K + f resolves to K's renderer
\* (as a request for K does) unless a route is registered at exactly K + f or
\* at K + f + '/': that route is tried first and is the one returned.
C3_IndexSuffixUnlessExact ==
    \A i \in RouteIdx :
        LET K == routes[i].key
            Kf == K \o indexFilename
        IN  (Answered /\ endsWith(K, <<"/">>) /\ response.path = Kf) =>
                /\ response.kind = "page"
                /\ response.status = 200
                /\ response.renderer =
                      IF MapHas(routes, Kf) THEN MapGet(routes, Kf)
                      ELSE IF MapHas(routes, Slash(Kf)) THEN MapGet(routes, Slash(Kf))
                      ELSE routes[i].val

\* C3's case: a route at K = '/', none at K + f, and a request for K + f that
\* was answered by K's renderer
C3_Witness ==
    \E i \in RouteIdx :
        /\ endsWith(routes[i].key, <<"/">>)
        /\ ~ MapHas(routes, routes[i].key \o indexFilename)
        /\ response.path = routes[i].key \o indexFilename
        /\ response.kind = "page"
        /\ response.renderer = routes[i].val

\* the clear-first flag the coercion rule gives for --clear-out: the default
\* true when the option is absent, true when it has no value, and otherwise
\* whether the value, in lower case, is one of true, yes, y, 1
ClearOutRule ==
    LET opt == getOption(parse(argv, TRUE), ClearOutKey) IN
    IF opt.kind = "undefined" THEN TRUE
    ELSE IF opt.kind = "null" THEN TRUE
    ELSE toLowerCase(opt.str) \in {TrueValues[i] : i \in 1..Len(TrueValues)}

\* C4: for the build command, the clear-first flag handed to build follows
\* the coercion rule for --clear-out, with the default true when the option
\* is absent.
C4_ClearOutFlag ==
    (argv # <<>> /\ build # NoBuild) => build.clearOutDir = ClearOutRule

\* the file C5 names for route key K: outDir joined with K, and the index
\* filename exactly when K ends in '/'
LayoutFile(K) ==
    NormSegs(joinPaths(build.outDir, K)
             \o (IF endsWith(K, <<"/">>) THEN indexFilename ELSE <<>>))

\* C5: after a successful build(outDir, true), for every registered route key
\* K there is a file at outDir joined with K (with the index filename exactly
\* when K ends in '/') whose content is the normalized result of K's
\* renderer, and no page-derived file exists at any other path.
C5_BuildLayout ==
    (pc = "built" /\ build.clearOutDir) =>
        /\ \A i \in RouteIdx :
              /\ FsIsFile(disk, LayoutFile(routes[i].key))
              /\ disk[LayoutFile(routes[i].key)].data = OutputBytes(Invoke(routes[i].val))
        /\ \A j \in 1..Len(writes) :
              writes[j].by = "page" =>
                  \E i \in RouteIdx : writes[j].path = LayoutFile(routes[i].key)

\* the writes of the build to one path, in the order they were made
WritesTo(path) == {j \in 1..Len(writes) : writes[j].path = path}
LastWriteTo(path) == CHOOSE j \in WritesTo(path) : \A k \in WritesTo(path) : k <= j

MatchesPage(path) == MatchedKey(path) # <<>>
MatchesStatic(path) ==
    \E i \in 1..Len(staticMappings) :
        /\ startsWith(path, staticMappings[i].key)
        /\ stat(disk, StaticFilePath(staticMappings[i].key, staticMappings[i].val, path))
              = "file"

\* C7: a request whose path matches no page route and no static file gets a
\* response with status 404, whose body is the output of the renderer
\* registered at '/' + notFoundFilename if there is one and the fixed
\* diagnostic text otherwise; a request that matches a page route or a static
\* file never gets status 404.
C7_NotFoundFallback ==
    pc = "serving" /\ response # NoResponse =>
        LET path == response.path
            notFoundKey == <<"/">> \o notFoundFilename
        IN  /\ (~ MatchesPage(path) /\ ~ MatchesStatic(path)) =>
                  /\ response.status = 404
                  /\ response.body =
                        IF MapHas(routes, notFoundKey)
                        THEN OutputBytes(Invoke(MapGet(routes, notFoundKey)))
                        ELSE DiagnosticText
            /\ (MatchesPage(path) \/ MatchesStatic(path)) => response.status # 404

\* the renderer of the most recent registration for a key
LoggedAt(k) == {i \in 1..Len(regLog) : regLog[i].key = k}
LastLogged(k) == regLog[CHOOSE i \in LoggedAt(k) : \A j \in LoggedAt(k) : j <= i].val

\* C8: after any sequence of setRoute and setNotFound calls the route table
\* holds at most one renderer per exact key, its keys are the keys that were
\* registered, and for every key it holds the renderer of the most recent
\* registration for that key; no registration raised an error, and a request
\* for a registered key is answered by the later renderer.
C8_LastWriteWins ==
    /\ \A i, j \in RouteIdx : routes[i].key = routes[j].key => i = j
    /\ {routes[i].key : i \in RouteIdx} = {regLog[i].key : i \in 1..Len(regLog)}
    /\ \A i \in RouteIdx : routes[i].val = LastLogged(routes[i].key)
    /\ thrown = ""
    /\ (Answered /\ MapHas(routes, response.path)) =>
          /\ response.kind = "page"
          /\ response.renderer = LastLogged(response.path)

\* C8's case: a key registered twice with different renderers, and a request
\* for that key answered by the later one
C8_Witness ==
    \E i, j \in 1..Len(regLog) :
        /\ i < j
        /\ regLog[i].key = regLog[j].key
        /\ regLog[i].val # regLog[j].val
        /\ \A k \in 1..Len(regLog) : regLog[k].key = regLog[j].key => k <= j
        /\ response.path = regLog[j].key
        /\ response.renderer = regLog[j].val

\* C9: for every static mapping and every requested path that starts with its
\* prefix, the file path the handler stats lies inside the mapped directory,
\* and so does the file it serves.
C9_TraversalGuard ==
    /\ \A st \in response.statted : IsPrefix(NormSegs(st[1]), NormSegs(st[2]))
    /\ response.kind = "static" =>
          \E i \in 1..Len(staticMappings) :
              /\ startsWith(response.path, staticMappings[i].key)
              /\ IsProperPrefix(NormSegs(staticMappings[i].val), NormSegs(response.file))

\* C9's case: a request whose path has a segment of two dots after the
\* prefix, answered with a file of the mapped directory
C9_Witness ==
    /\ response.kind = "static"
    /\ \E i \in 1..Len(response.path) - 2 :
          SubSeq(response.path, i, i + 2) = <<"/", ".", ".">>
    /\ response.statted # {}

\* C10: when a renderer returns a value that is not text, a byte buffer, a
\* byte stream or a markup value, a request that resolves to it gets no
\* response made of that value: a response that carries a renderer's output
\* carries the output of a renderer whose result is of a recognized shape.
C10_RejectsUnrecognized ==
    response.kind \in {"page", "notfound"} =>
        Invoke(response.renderer).type \in {"string", "bytes", "stream", "jsx"}

\* the tokens of the command line after the first two, and what the option
\* parsing contract makes of one token: it is an option when it begins with
\* '--', its key is the text after '--' up to the first '=', its value the
\* text after that '=', or null when there is none
CliTokens == SubSeq(argv, 3, Len(argv))
IsOptionToken(t) == Len(t) >= 2 /\ t[1] = "-" /\ t[2] = "-"
IsPositional(t) == ~ IsOptionToken(t)
FirstEq(t) ==
    IF \E i \in 1..Len(t) : t[i] = "="
    THEN CHOOSE i \in 1..Len(t) : t[i] = "=" /\ \A j \in 1..(i - 1) : t[j] # "="
    ELSE 0
KeyOf(t) == IF FirstEq(t) = 0 THEN SubSeq(t, 3, Len(t)) ELSE SubSeq(t, 3, FirstEq(t) - 1)
ValueOf(t) ==
    IF FirstEq(t) = 0 THEN [kind |-> "null", str |-> <<>>]
    ELSE [kind |-> "string", str |-> SubSeq(t, FirstEq(t) + 1, Len(t))]
OptionTokens == {i \in 1..Len(CliTokens) : IsOptionToken(CliTokens[i])}

\* C11, as the spec states it: for every token list, each token beginning
\* with '--' becomes an option whose key is the text after '--' up to the
\* first '=' and whose value is the text after that '=' (null without '='),
\* every other token is appended in order to the positional arguments, and an
\* option is absent, present with null, or present with a string.
C11_OptionParsing ==
    LET parsed == parse(argv, TRUE) IN
    pc # "setup" =>
    /\ parsed.args = SelectSeq(CliTokens, IsPositional)
    /\ \A i \in OptionTokens :
          getOption(parsed, KeyOf(CliTokens[i])) = ValueOf(CliTokens[i])
    /\ \A i \in 1..Len(parsed.options) :
          /\ parsed.options[i].val.kind \in {"null", "string"}
          /\ \E j \in OptionTokens : KeyOf(CliTokens[j]) = parsed.options[i].key

\* C11, amended: every token that does not begin with '--' is appended, in
\* order, to the positional arguments; the options are exactly the keys of
\* the tokens that begin with '--', each once, and the value of an option is
\* that of the last token with its key (the text after the first '=', or
\* null without '='): a later token with the same key replaces the earlier
\* one's value.  A key no token has is absent (undefined).
C11_OptionParsingLastWins ==
    LET parsed == parse(argv, TRUE) IN
    pc # "setup" =>
    /\ parsed.args = SelectSeq(CliTokens, IsPositional)
    /\ \A i \in OptionTokens :
          (\A j \in OptionTokens : KeyOf(CliTokens[j]) = KeyOf(CliTokens[i]) => j <= i) =>
              getOption(parsed, KeyOf(CliTokens[i])) = ValueOf(CliTokens[i])
    /\ \A i, j \in 1..Len(parsed.options) :
          parsed.options[i].key = parsed.options[j].key => i = j
    /\ {parsed.options[i].key : i \in 1..Len(parsed.options)}
          = {KeyOf(CliTokens[i]) : i \in OptionTokens}
    /\ \A k \in {OutKey, ClearOutKey, <<>>} :
          (\A i \in OptionTokens : KeyOf(CliTokens[i]) # k) =>
              getOption(parsed, k).kind = "undefined"

\* C11's case: cli parsed a command line with a positional argument and an
\* option with a value, and with one key given twice with different values
C11_Witness ==
    /\ pc # "setup"
    /\ \E i \in 1..Len(CliTokens) : IsPositional(CliTokens[i])
    /\ \E i, j \in OptionTokens :
          /\ i < j
          /\ KeyOf(CliTokens[i]) = KeyOf(CliTokens[j])
          /\ ValueOf(CliTokens[i]) # ValueOf(CliTokens[j])
          /\ ValueOf(CliTokens[j]).kind = "string"

\* a prefix mapStatic must refuse, and the messages of its errors
BadPrefix(route) ==
    route = <<>> \/ Head(route) # "/" \/ route[Len(route)] # "/"
PrefixErrors ==
    { "Static routes must begin with an initial slash",
      "Static routes must end with a trailing slash" }

\* C12: a call of mapStatic with a prefix that does not start with '/' or
\* does not end with '/' raises an error and leaves the static-mapping table
\* and the route table unchanged, and a step that raises such an error changes
\* neither table; hence every key of the static-mapping table starts and ends
\* with '/'.
C12_PrefixValidation ==
    /\ [](\A i \in 1..Len(staticMappings) : ~ BadPrefix(staticMappings[i].key))
    /\ [][ /\ \A route \in StaticRoutes, dir \in StaticDirs :
                (mapStatic(route, dir) /\ BadPrefix(route)) =>
                    /\ thrown' \in PrefixErrors
                    /\ staticMappings' = staticMappings
                    /\ routes' = routes
           /\ thrown' \in PrefixErrors =>
                (staticMappings' = staticMappings /\ routes' = routes)
         ]_vars

\* C12's case: with a mapping and a route registered, mapStatic was called
\* with a prefix without its trailing slash and raised its error
C12_Witness ==
    /\ thrown = "Static routes must end with a trailing slash"
    /\ staticMappings # <<>>
    /\ routes # <<>>

\* the file mapping i names for a path, and whether the mapping hits: its
\* prefix is a literal prefix of the path and the file is a regular file
TargetOf(i, path) ==
    StaticFilePath(staticMappings[i].key, staticMappings[i].val, path)
Hits(i, path) ==
    /\ startsWith(path, staticMappings[i].key)
    /\ FsIsFile(disk, NormSegs(TargetOf(i, path)))
FirstHit(path) ==
    CHOOSE i \in 1..Len(staticMappings) :
        Hits(i, path) /\ \A j \in 1..(i - 1) : ~ Hits(j, path)

\* C13: a page-route match, on any candidate, wins over static files, and no
\* static mapping is consulted for it.  When no candidate matches a page
\* route, the first mapping in registration order whose prefix is a literal
\* prefix of the path and whose target is an existing regular file is served;
\* mappings before it, whose target is missing or is not a regular file, are
\* skipped.
C13_ResolutionPrecedence ==
    Answered =>
        LET path == response.path IN
        /\ MatchesPage(path) =>
              /\ response.kind = "page"
              /\ response.renderer = MapGet(routes, MatchedKey(path))
              /\ response.statted = {}
        /\ (~ MatchesPage(path) /\ \E i \in 1..Len(staticMappings) : Hits(i, path)) =>
              /\ response.kind = "static"
              /\ response.status = 200
              /\ response.file = TargetOf(FirstHit(path), path)
              /\ response.body = disk[NormSegs(TargetOf(FirstHit(path), path))].data

\* the page writes of the build so far, and the number of them
PageWrites == SelectSeq(writes, LAMBDA w : w.by = "page")
Recognized == {"string", "bytes", "stream", "jsx"}

\* C14: build is sequential and aborts on the first failure.  Static
\* mappings are copied in registration order and routes are then written in
\* registration order, one route per step with none left out.  A build that
\* failed has raised its error, wrote nothing for the failing route and
\* nothing after it, and from then on changes nothing; a build that returned
\* had no failing step.  Every file a step wrote is still in the output
\* directory, with the content of the last write to its path.
C14_SequentialAbort ==
    /\ [](pc \in {"building", "built", "failed"} =>
            /\ \A j, k \in 1..Len(writes) :
                  j < k =>
                    /\ writes[k].by = "static" =>
                          /\ writes[j].by = "static"
                          /\ MapIndex(staticMappings, writes[j].key)
                                <= MapIndex(staticMappings, writes[k].key)
                    /\ writes[j].by = "page" =>
                          /\ writes[k].by = "page"
                          /\ MapIndex(routes, writes[j].key) < MapIndex(routes, writes[k].key)
            /\ \A j \in 1..Len(PageWrites) : PageWrites[j].key = routes[j].key
            /\ Len(PageWrites) = IF pc # "failed" THEN build.rIdx - 1
                                 ELSE IF build.rIdx > 1 THEN build.rIdx - 2 ELSE 0
            /\ pc = "failed" =>
                  /\ thrown # ""
                  /\ build.rIdx > 1 =>
                        build.sIdx > Len(staticMappings)
            /\ pc = "built" =>
                  /\ thrown = ""
                  /\ Len(PageWrites) = Len(routes)
                  /\ \A i \in RouteIdx : Invoke(routes[i].val).type \in Recognized
            /\ \A j \in 1..Len(writes) :
                  /\ FsIsFile(disk, writes[j].path)
                  /\ disk[writes[j].path].data = writes[LastWriteTo(writes[j].path)].data)
    /\ [][pc = "failed" => UNCHANGED <<disk, writes, build, pc, thrown>>]_vars

\* C14's case: a build that failed at its first route, whose renderer
\* returned no RenderResult: the files of the static copy before it are in
\* the output directory and the route after it was not rendered
C14_Witness ==
    /\ pc = "failed"
    /\ thrown = "Invalid render result"
    /\ \E j \in 1..Len(writes) :
          writes[j].by = "static" /\ FsIsFile(disk, writes[j].path)
    /\ build.rIdx <= Len(routes)
    /\ Invoke(routes[Len(routes)].val).type \in Recognized
    /\ ~ FsExists(disk, NormSegs(OutFile(build.outDir, routes[Len(routes)].key)))

\* the paths the build wrote so far, and the entries below a directory
WrittenPaths == {writes[j].path : j \in 1..Len(writes)}
Below(d, out) == {p \in DOMAIN d : IsProperPrefix(out, p)}

\* C15: the step that starts a build creates the output directory if it does
\* not exist and touches nothing else; if the directory exists and clearFirst
\* is true it removes every entry below it, before any copy or write, and
\* nothing else; if the directory exists and clearFirst is false it changes
\* nothing.  Every later step of the build removes no entry and changes only
\* files this build wrote.  So a finished build that cleared first holds only
\* files this build produced, and one that did not clear leaves every
\* pre-existing file it did not write unchanged.
C15_OutputDirPreparation ==
    /\ []((pc = "built" /\ build.clearOutDir) =>
            \A p \in Below(disk, NormSegs(build.outDir)) :
                FsIsFile(disk, p) => p \in WrittenPaths)
    /\ [][ LET out == NormSegs(build'.outDir) IN
           /\ (build'.n # build.n /\ pc' = "building") =>
                /\ writes' = <<>>
                /\ ~ FsExists(disk, out) =>
                      /\ FsIsDir(disk', out)
                      /\ Below(disk', out) = {}
                      /\ \A p \in DOMAIN disk : p \in DOMAIN disk' /\ disk'[p] = disk[p]
                      /\ \A p \in DOMAIN disk' \ DOMAIN disk : IsPrefix(p, out)
                /\ (FsExists(disk, out) /\ build'.clearOutDir) =>
                      /\ DOMAIN disk' = DOMAIN disk \ Below(disk, out)
                      /\ \A p \in DOMAIN disk' : disk'[p] = disk[p]
                /\ (FsExists(disk, out) /\ ~ build'.clearOutDir) => disk' = disk
           /\ (build'.n = build.n /\ pc = "building") =>
                \A p \in DOMAIN disk :
                    /\ p \in DOMAIN disk'
                    /\ disk'[p] # disk[p] => p \in {writes'[j].path : j \in 1..Len(writes')}
         ]_vars

\* C15's case: a build without clearing into a directory that held dist/old
\* and dist/index.html has finished: dist/old is as it was, and
\* dist/index.html is the page this build wrote
C15_Witness ==
    /\ pc = "built"
    /\ build.n = 1
    /\ ~ build.clearOutDir
    /\ FsIsFile(disk, OldFile)
    /\ disk[OldFile] = OldDisk[OldFile]
    /\ OldFile \notin WrittenPaths
    /\ OldIndex \in WrittenPaths
    /\ disk[OldIndex] # OldDisk[OldIndex]

\* the calls of setNotFound among the registrations: those logged under a
\* key that is no key of setRoute's
NotFoundRegs == {i \in 1..Len(regLog) : regLog[i].key \notin RegKeys}
LastNotFoundReg == CHOOSE i \in NotFoundRegs : \A j \in NotFoundRegs : j <= i

\* C16: the not-found page does not depend on the order of setNotFound and
\* setNotFoundFilename: once setNotFound(r) was called, before or after the
\* calls of setNotFoundFilename, an unmatched request is answered 404 with
\* the output of r (of the last such r).
C16_NotFoundOrderIndependent ==
    (response.status = 404 /\ NotFoundRegs # {}) =>
        /\ response.kind = "notfound"
        /\ response.renderer = regLog[LastNotFoundReg].val
        /\ response.body = OutputBytes(Invoke(regLog[LastNotFoundReg].val))

\* C17: build is repeatable without clearing: a build(outDir, false) that
\* follows a successful build of the same site completes without error, and
\* the files it wrote are in the output directory with the contents it wrote.
C17_RepeatableBuild ==
    (build.n >= 2 /\ ~ build.clearOutDir) =>
        /\ pc # "failed"
        /\ thrown = ""
        /\ pc = "built" =>
              \A j \in 1..Len(writes) :
                  /\ FsIsFile(disk, writes[j].path)
                  /\ disk[writes[j].path].data = writes[LastWriteTo(writes[j].path)].data

=============================================================================
